---- MODULE Spec2Model ----
(***************************************************************************)
(* PizzaBot order store (db.py), menu catalog (menu.py) and the tool       *)
(* surface built by build_agent (agent.py), as a state machine.            *)
(*                                                                         *)
(* The store is one sqlite3 connection shared by every tool.  Python's     *)
(* sqlite3 module opens a transaction implicitly before the first          *)
(* INSERT/UPDATE/DELETE and keeps it open until conn.commit(); nothing in  *)
(* the code ever rolls back.  The tables below are what the connection     *)
(* reads (committed rows plus the rows of its own open transaction);       *)
(* `disk` is what has been committed.                                      *)
(*                                                                         *)
(* Columns the modelled operations never read back (phone, address, notes, *)
(* created_at) are left out of the rows.  Times are readings of the clock  *)
(* `now` (utc_now_iso).                                                    *)
(***************************************************************************)
EXTENDS Integers, Sequences, FiniteSets, TLC

VARIABLES
    customers,      \* table customers: sequence of rows, row i has id i
    orders,         \* table orders: sequence of rows, row i has id i
    order_items,    \* table order_items: rows in ascending id
    order_updates,  \* table order_updates: rows in ascending id
    item_seq,       \* sqlite_sequence entry of order_items (AUTOINCREMENT)
    disk,           \* the committed content of the five items above
    ret,            \* what the last tool call returned or raised
    removed,        \* history: the ids remove_item has been called with
    removed_issued, \* history: those of them that had been issued at the call
    nchanges,       \* history: successful status changes per order id
    calc,           \* compute_totals on free-standing inputs (SpecTotals)
    now,            \* the clock utc_now_iso() reads
    inflight        \* a checkout between its read and its write (SpecConc)

vars == <<customers, orders, order_items, order_updates, item_seq, disk, ret,
          removed, removed_issued, nchanges, calc, now,
          inflight>>

store == <<customers, orders, order_items, order_updates, item_seq>>

(***************************************************************************)
(* Bounds of the model.                                                    *)
(***************************************************************************)
\* Rows the orders, order_items and order_updates tables may hold in all
\* (rows deleted from order_items included).
MaxRows == 5
\* Items in a free-standing compute_totals input (SpecTotals).
MaxLen == 2

\* Python's None where a str is expected, and where a dict is expected.
None == "None"
NoRow == [none |-> TRUE]

(***************************************************************************)
(* Texts.  str.strip() and str.lower() on the texts the model feeds in.   *)
(***************************************************************************)
BadText == "\\ud800"

Strip(s) ==
    CASE s = " Delivery "   -> "Delivery"
      [] s = " MARGHERITA " -> "MARGHERITA"
      [] s = " Medium "     -> "Medium"
      [] s = " Baking "     -> "Baking"
      [] s = "  "           -> ""
      [] OTHER              -> s

Lower(s) ==
    CASE s = "Delivery"     -> "delivery"
      [] s = " Delivery "   -> " delivery "
      [] s = "MARGHERITA"   -> "margherita"
      [] s = " MARGHERITA " -> " margherita "
      [] s = "Medium"       -> "medium"
      [] s = " Medium "     -> " medium "
      [] s = "Baking"       -> "baking"
      [] s = " Baking "     -> " baking "
      [] OTHER              -> s

\* sqlite3 binds a str parameter as UTF-8; a lone surrogate cannot be encoded.
Bindable(v) == v # BadText

(***************************************************************************)
(* Menu catalog (menu.py).  tax_percent is a float; the catalog's rate is  *)
(* a dyadic rational num/den, for which the float product is exact.        *)
(***************************************************************************)
menu ==
    [pizzas |-> << [id |-> "margherita", name |-> "Margherita",
                    sizes |-> [small |-> 600, medium |-> 800, large |-> 1100]] >>,
     extras |-> << [id |-> "garlic_bread", name |-> "Garlic Bread", price |-> 150] >>,
     delivery_fee |-> 200,
     tax_percent |-> [num |-> 1, den |-> 8]]

RECURSIVE FindById(_, _, _)
FindById(rows, key, i) ==
    IF i > Len(rows) THEN NoRow
    ELSE IF Lower(rows[i].id) = key THEN rows[i]
    ELSE FindById(rows, key, i + 1)

\* The comparison with the id left out: the first pizza always matches.
find_pizza_any(m, pizza_id) == m.pizzas[1]

find_pizza(m, pizza_id) == FindById(m.pizzas, Lower(Strip(pizza_id)), 1)

find_extra(m, extra_id) == FindById(m.extras, Lower(Strip(extra_id)), 1)

(***************************************************************************)
(* Pricing (db.compute_totals).                                            *)
(***************************************************************************)
\* Python 3 round() of the exact quotient n/d: half to even.
Round(n, d) ==
    LET q == n \div d
        r == n % d
    IN  IF 2 * r < d THEN q
        ELSE IF 2 * r > d THEN q + 1
        ELSE IF q % 2 = 0 THEN q ELSE q + 1

RECURSIVE Subtotal(_, _, _)
Subtotal(items, i, acc) ==
    IF i > Len(items) THEN acc
    ELSE Subtotal(items, i + 1, acc + items[i].qty * items[i].unit_price)

\* int() in place of round(): the product is truncated.
compute_totals_trunc(items, delivery_fee, tax_percent) ==
    LET subtotal == Subtotal(items, 1, 0)
        tax == (subtotal * tax_percent.num) \div tax_percent.den
    IN  [subtotal |-> subtotal, delivery_fee |-> delivery_fee, tax |-> tax,
         total |-> subtotal + delivery_fee + tax]

compute_totals(items, delivery_fee, tax_percent) ==
    LET subtotal == Subtotal(items, 1, 0)
        tax == Round(subtotal * tax_percent.num, tax_percent.den)
        total == subtotal + delivery_fee + tax
    IN  [subtotal |-> subtotal, delivery_fee |-> delivery_fee, tax |-> tax,
         total |-> total]

(***************************************************************************)
(* Order store (db.py).                                                    *)
(***************************************************************************)
Snapshot(c, o, i, u, s) ==
    [customers |-> c, orders |-> o, order_items |-> i, order_updates |-> u,
     item_seq |-> s]

\* A tool call's outcome: the exception it raised (Ok when it returned) and,
\* for checkout, the totals it returned.
Ok == <<>>
ValueError(msg) == <<"ValueError", msg>>
IntegrityError == <<"IntegrityError", "FOREIGN KEY constraint failed">>
UnicodeEncodeError == <<"UnicodeEncodeError", "surrogates not allowed">>

Result(op, raised, totals) == [op |-> op, raised |-> raised, totals |-> totals]

\* conn.commit(): the open transaction, if any, becomes the committed content.
commit == disk' = Snapshot(customers', orders', order_items', order_updates', item_seq')

\* PRAGMA foreign_keys = ON: a child row must reference an existing order.
ForeignKeysOff(order_id, ords) == TRUE

ForeignKeyOk(order_id, ords) == order_id \in DOMAIN ords

\* INTEGER PRIMARY KEY without AUTOINCREMENT: one more than the largest rowid.
NextRowid(items, seq) ==
    IF items = <<>> THEN 1 ELSE items[Len(items)].id + 1

\* INTEGER PRIMARY KEY AUTOINCREMENT: one more than the largest id ever issued.
NextItemId(items, seq) == seq + 1

ItemsOf(items, order_id) == SelectSeq(items, LAMBDA r : r.order_id = order_id)

UpdatesOf(updates, order_id) == SelectSeq(updates, LAMBDA r : r.order_id = order_id)

get_order(order_id) ==
    IF order_id \notin DOMAIN orders THEN NoRow
    ELSE [order |-> orders[order_id],
          items |-> ItemsOf(order_items, order_id),
          updates |-> UpdatesOf(order_updates, order_id)]

Init ==
    /\ customers = <<>>
    /\ orders = <<>>
    /\ order_items = <<>>
    /\ order_updates = <<>>
    /\ item_seq = 0
    /\ disk = Snapshot(<<>>, <<>>, <<>>, <<>>, 0)
    /\ ret = Result("init", Ok, NoRow)
    /\ removed = {}
    /\ removed_issued = {}
    /\ nchanges = <<>>
    /\ calc = NoRow
    /\ now = 0
    /\ inflight = NoRow

history == <<removed, removed_issued, nchanges>>

RowCount == Len(orders) + item_seq + Len(order_updates)

(***************************************************************************)
(* db.py writers.  Each is one call: its statements in order, then         *)
(* conn.commit().  A statement that raises ends the call there: what the   *)
(* earlier statements wrote stays in the connection's open transaction.    *)
(***************************************************************************)
create_customer(name) ==
    Append(customers, [id |-> Len(customers) + 1, name |-> Strip(name)])

\* The order row alone: the INSERT into order_updates left out.
create_order_noaudit(custs, customer_id, delivery_type) ==
    LET order_id == Len(orders) + 1
    IN  /\ customers' = custs
        /\ orders' = Append(orders, [id |-> order_id, customer_id |-> customer_id,
                                     status |-> "draft",
                                     delivery_type |-> delivery_type,
                                     updated_at |-> now])
        /\ UNCHANGED <<order_items, order_updates, item_seq>>
        /\ commit

create_order(custs, customer_id, delivery_type) ==
    LET order_id == Len(orders) + 1
    IN  /\ customers' = custs
        /\ orders' = Append(orders, [id |-> order_id, customer_id |-> customer_id,
                                     status |-> "draft",
                                     delivery_type |-> delivery_type,
                                     updated_at |-> now])
        /\ order_updates' = Append(order_updates,
                                   [id |-> Len(order_updates) + 1,
                                    order_id |-> order_id, status |-> "draft",
                                    message |-> "Order created"])
        /\ UNCHANGED <<order_items, item_seq>>
        /\ commit

\* An insert that is refused once the order has left draft.
add_order_item_draft_only(op, order_id, item_type, item_id, item_name, qty, unit_price, size) ==
    IF ~ForeignKeyOk(order_id, orders)
    THEN /\ ret' = Result(op, IntegrityError, NoRow)
         /\ UNCHANGED <<store, disk>>
    ELSE IF orders[order_id].status # "draft"
    THEN /\ ret' = Result(op, ValueError("Order is not a draft"), NoRow)
         /\ UNCHANGED <<store, disk>>
    ELSE /\ RowCount < MaxRows
         /\ order_items' = Append(order_items,
                [id |-> item_seq + 1, order_id |-> order_id, item_type |-> item_type,
                 item_id |-> item_id, item_name |-> item_name,
                 size |-> size, qty |-> qty, unit_price |-> unit_price])
         /\ item_seq' = item_seq + 1
         /\ orders' = [orders EXCEPT ![order_id].updated_at = now]
         /\ UNCHANGED <<customers, order_updates>>
         /\ commit
         /\ ret' = Result(op, Ok, NoRow)

add_order_item(op, order_id, item_type, item_id, item_name, qty, unit_price, size) ==
    IF ~ForeignKeyOk(order_id, orders)
    THEN \* the INSERT raises sqlite3.IntegrityError; nothing was written
         /\ ret' = Result(op, IntegrityError, NoRow)
         /\ UNCHANGED <<store, disk>>
    ELSE /\ RowCount < MaxRows
         /\ LET id == NextItemId(order_items, item_seq)
            IN  /\ order_items' = Append(order_items,
                       [id |-> id, order_id |-> order_id, item_type |-> item_type,
                        item_id |-> item_id, item_name |-> item_name,
                        size |-> size, qty |-> qty, unit_price |-> unit_price])
                /\ item_seq' = IF id > item_seq THEN id ELSE item_seq
         /\ orders' = [orders EXCEPT ![order_id].updated_at = now]
         /\ UNCHANGED <<customers, order_updates>>
         /\ commit
         /\ ret' = Result(op, Ok, NoRow)

\* A removal that takes one unit off the row and deletes it at the last unit.
remove_order_item_unit(order_item_id) ==
    /\ order_items' = SelectSeq(
            [i \in DOMAIN order_items |->
                IF order_items[i].id = order_item_id
                THEN [order_items[i] EXCEPT !.qty = @ - 1]
                ELSE order_items[i]],
            LAMBDA r : r.qty > 0 \/ r.id # order_item_id)
    /\ UNCHANGED <<customers, orders, order_updates, item_seq>>
    /\ commit

remove_order_item(order_item_id) ==
    /\ order_items' = SelectSeq(order_items, LAMBDA r : r.id # order_item_id)
    /\ UNCHANGED <<customers, orders, order_updates, item_seq>>
    /\ commit

SetStatus(ords, order_id, status, at) ==
    IF order_id \in DOMAIN ords
    THEN [ords EXCEPT ![order_id].status = status, ![order_id].updated_at = at]
    ELSE ords

Bump(n, order_id) ==
    [i \in DOMAIN n |-> IF i = order_id THEN n[i] + 1 ELSE n[i]]

set_order_status(op, order_id, status, message, totals) ==
    IF ~Bindable(message)
    THEN \* the UPDATE ran; binding the INSERT's message raises UnicodeEncodeError
         /\ orders' = SetStatus(orders, order_id, status, now)
         /\ ret' = Result(op, UnicodeEncodeError, NoRow)
         /\ UNCHANGED <<customers, order_items, order_updates, item_seq, disk, nchanges>>
    ELSE IF ~ForeignKeyOk(order_id, orders)
    THEN \* the UPDATE matched no row; the INSERT raises sqlite3.IntegrityError
         /\ ret' = Result(op, IntegrityError, NoRow)
         /\ UNCHANGED <<store, disk, nchanges>>
    ELSE /\ RowCount < MaxRows
         /\ orders' = SetStatus(orders, order_id, status, now)
         /\ order_updates' = Append(order_updates,
                                    [id |-> Len(order_updates) + 1,
                                     order_id |-> order_id, status |-> status,
                                     message |-> message])
         /\ UNCHANGED <<customers, order_items, item_seq>>
         /\ commit
         /\ nchanges' = Bump(nchanges, order_id)
         /\ ret' = Result(op, Ok, totals)

(***************************************************************************)
(* The tools of build_agent (agent.py).                                    *)
(***************************************************************************)
\* `if customer_name:` alone: a blank name counts as a name.
HasNameNotNone(customer_name) == customer_name # None /\ customer_name # ""

\* `if customer_name and customer_name.strip()`
HasName(customer_name) ==
    customer_name # None /\ customer_name # "" /\ Strip(customer_name) # ""

start_order(delivery_type, customer_name) ==
    LET dt == Lower(Strip(delivery_type))
    IN  IF dt \notin {"delivery", "pickup"}
        THEN /\ ret' = Result("start_order",
                           ValueError("delivery_type must be 'delivery' or 'pickup'"),
                           NoRow)
             /\ UNCHANGED <<store, disk, history, calc, now, inflight>>
        ELSE /\ RowCount + 1 < MaxRows
             /\ IF HasName(customer_name)
                THEN create_order(create_customer(customer_name),
                                  Len(customers) + 1, dt)
                ELSE create_order(customers, 0, dt)  \* customer_id NULL
             /\ nchanges' = Append(nchanges, 0)
             /\ ret' = Result("start_order", Ok, NoRow)
             /\ UNCHANGED <<removed, removed_issued, calc, now, inflight>>

add_pizza(order_id, pizza_id, size, qty) ==
    LET sz == Lower(Strip(size))
        pizza == find_pizza(menu, pizza_id)
    IN  /\ IF sz \notin {"small", "medium", "large"}
           THEN /\ ret' = Result("add_pizza",
                                 ValueError("size must be one of: small, medium, large"),
                                 NoRow)
                /\ UNCHANGED <<store, disk>>
           ELSE IF pizza = NoRow
           THEN /\ ret' = Result("add_pizza", ValueError("Unknown pizza_id"), NoRow)
                /\ UNCHANGED <<store, disk>>
           ELSE add_order_item("add_pizza", order_id, "pizza", pizza.id, pizza.name,
                               qty, pizza.sizes[sz], sz)
        /\ UNCHANGED <<history, calc, now, inflight>>

add_extra(order_id, extra_id, qty) ==
    LET extra == find_extra(menu, extra_id)
    IN  /\ IF extra = NoRow
           THEN /\ ret' = Result("add_extra", ValueError("Unknown extra_id"), NoRow)
                /\ UNCHANGED <<store, disk>>
           ELSE add_order_item("add_extra", order_id, "extra", extra.id, extra.name,
                               qty, extra.price, None)
        /\ UNCHANGED <<history, calc, now, inflight>>

remove_item(order_item_id) ==
    /\ remove_order_item(order_item_id)
    /\ removed' = removed \cup {order_item_id}
    /\ removed_issued' = IF order_item_id <= item_seq
                         THEN removed_issued \cup {order_item_id}
                         ELSE removed_issued
    /\ ret' = Result("remove_item", Ok, NoRow)
    /\ UNCHANGED <<nchanges, calc, now, inflight>>

\* `if not payload["items"]` left out: every existing order can be checked out.
HasNoItemsNever(payload) == FALSE

HasNoItems(payload) == payload.items = <<>>

\* The catalog's fee charged whatever the delivery type.
DeliveryFeeFlat(order) == menu.delivery_fee

DeliveryFee(order) ==
    IF order.delivery_type = "delivery" THEN menu.delivery_fee ELSE 0

\* A checkout that refuses an order that is already placed.
checkout_once(order_id) ==
    LET payload == get_order(order_id)
    IN  /\ IF payload = NoRow
           THEN /\ ret' = Result("checkout", ValueError("Order not found"), NoRow)
                /\ UNCHANGED <<store, disk, nchanges>>
           ELSE IF HasNoItems(payload) \/ payload.order.status = "placed"
           THEN /\ ret' = Result("checkout", ValueError("Order has no items"), NoRow)
                /\ UNCHANGED <<store, disk, nchanges>>
           ELSE set_order_status("checkout", order_id, "placed", "Order placed",
                                 compute_totals(payload.items,
                                                DeliveryFee(payload.order),
                                                menu.tax_percent))
        /\ UNCHANGED <<removed, removed_issued, calc, now, inflight>>

checkout(order_id) ==
    LET payload == get_order(order_id)
    IN  /\ IF payload = NoRow
           THEN /\ ret' = Result("checkout", ValueError("Order not found"), NoRow)
                /\ UNCHANGED <<store, disk, nchanges>>
           ELSE IF HasNoItems(payload)
           THEN /\ ret' = Result("checkout", ValueError("Order has no items"), NoRow)
                /\ UNCHANGED <<store, disk, nchanges>>
           ELSE LET delivery_fee == DeliveryFee(payload.order)
                    totals == compute_totals(payload.items, delivery_fee,
                                             menu.tax_percent)
                IN  set_order_status("checkout", order_id, "placed", "Order placed",
                                     totals)
        /\ UNCHANGED <<removed, removed_issued, calc, now, inflight>>

admin_update_status(order_id, status, message) ==
    /\ set_order_status("admin_update_status", order_id, Lower(Strip(status)),
                        message, NoRow)
    /\ UNCHANGED <<removed, removed_issued, calc, now, inflight>>

(***************************************************************************)
(* What the tools are called with.  Spec is one session calling its tools  *)
(* one after the other within one reading of the clock; SpecClock lets the *)
(* clock advance, SpecConc interleaves a second caller.                    *)
(***************************************************************************)
OrderIds == {1, 2}
ItemIds == {1, 2}
\* start_order: <<delivery_type, customer_name>>
StartArgs == {<<"pickup", "  ">>, <<"pickup", None>>, <<" Delivery ", "Ali">>,
              <<"drone", "Ali">>}
PizzaIds == {" MARGHERITA ", "hawaiian"}
Sizes == {" Medium ", "huge"}
ExtraIds == {"garlic_bread", "fries"}
\* qty is any int the caller passes: add_pizza with 0 and 2, add_extra with 0.
Qtys == {0, 2}
ExtraQtys == {0}
\* admin_update_status: <<status, message>>
StatusArgs == {<<" Baking ", None>>, <<"teleported", None>>, <<" Baking ", BadText>>}

Next ==
    \/ \E a \in StartArgs : start_order(a[1], a[2])
    \/ \E o \in OrderIds, p \in PizzaIds, s \in Sizes, q \in Qtys : add_pizza(o, p, s, q)
    \/ \E o \in OrderIds, e \in ExtraIds, q \in ExtraQtys : add_extra(o, e, q)
    \/ \E i \in ItemIds : remove_item(i)
    \/ \E o \in OrderIds : checkout(o)
    \/ \E o \in OrderIds, a \in StatusArgs : admin_update_status(o, a[1], a[2])

Spec == Init /\ [][Next]_vars

(***************************************************************************)
(* The same tools with the clock running between the calls.                *)
(***************************************************************************)
MaxTime == 2

Tick ==
    /\ now < MaxTime
    /\ now' = now + 1
    /\ UNCHANGED <<store, disk, ret, history, calc, inflight>>

NextClock ==
    \/ Tick
    \/ start_order("pickup", None)
    \/ \E o \in OrderIds : add_pizza(o, " MARGHERITA ", " Medium ", 2)
    \/ \E i \in ItemIds : remove_item(i)
    \/ \E o \in OrderIds : checkout(o)
    \/ \E o \in OrderIds : admin_update_status(o, " Baking ", None)

SpecClock == Init /\ [][NextClock]_vars

(***************************************************************************)
(* Several callers on one database file (one chat session each, app.py).   *)
(* A tool is a sequence of statements; between checkout's get_order and    *)
(* its set_order_status another caller's tool may run and commit.  No call *)
(* here fails part-way, so no caller holds an open transaction and all     *)
(* callers read the same rows.                                             *)
(***************************************************************************)
checkout_read(order_id) ==
    LET payload == get_order(order_id)
    IN  /\ inflight = NoRow
        /\ IF payload = NoRow
           THEN /\ ret' = Result("checkout", ValueError("Order not found"), NoRow)
                /\ UNCHANGED inflight
           ELSE IF HasNoItems(payload)
           THEN /\ ret' = Result("checkout", ValueError("Order has no items"), NoRow)
                /\ UNCHANGED inflight
           ELSE /\ inflight' = [order_id |-> order_id,
                                totals |-> compute_totals(payload.items,
                                                          DeliveryFee(payload.order),
                                                          menu.tax_percent)]
                /\ UNCHANGED ret
        /\ UNCHANGED <<store, disk, history, calc, now>>

checkout_write ==
    /\ inflight # NoRow
    /\ set_order_status("checkout", inflight.order_id, "placed", "Order placed",
                        inflight.totals)
    /\ inflight' = NoRow
    /\ UNCHANGED <<removed, removed_issued, calc, now>>

NextConc ==
    \/ start_order("pickup", None)
    \/ \E o \in OrderIds : add_pizza(o, " MARGHERITA ", " Medium ", 2)
    \/ \E i \in ItemIds : remove_item(i)
    \/ \E o \in OrderIds : checkout_read(o)
    \/ checkout_write

SpecConc == Init /\ [][NextConc]_vars

(***************************************************************************)
(* Orders after checkout: the operator moves an order on (admin tab's      *)
(* status list) while the item tools go on being called for it.            *)
(***************************************************************************)
LateStatusArgs == {"delivered", "cancelled"}

NextLate ==
    \/ start_order("pickup", None)
    \/ \E o \in OrderIds : add_pizza(o, " MARGHERITA ", " Medium ", 2)
    \/ \E o \in OrderIds : add_extra(o, "garlic_bread", 0)
    \/ \E i \in ItemIds : remove_item(i)
    \/ \E o \in OrderIds : checkout(o)
    \/ \E o \in OrderIds, s \in LateStatusArgs : admin_update_status(o, s, None)

SpecLate == Init /\ [][NextLate]_vars

(***************************************************************************)
(* db.list_orders (the admin tab's listing) between order creations and    *)
(* status changes.  calc holds the last call: its limit and what it        *)
(* returned.                                                               *)
(***************************************************************************)
\* ORDER BY id DESC: row i of orders has id i.
OrderByIdDesc(ords) == [i \in 1 .. Len(ords) |-> ords[Len(ords) + 1 - i]]

\* LIMIT n: the first n rows; SQLite reads a negative n as no limit.
Limit(rows, n) ==
    IF n < 0 \/ n >= Len(rows) THEN rows ELSE SubSeq(rows, 1, n)

list_orders(ords, limit) == Limit(OrderByIdDesc(ords), limit)

MaxLimit == 3
Limits == -2 .. MaxLimit

ListOrders ==
    /\ \E limit \in Limits :
          calc' = [limit |-> limit, out |-> list_orders(orders, limit)]
    /\ UNCHANGED <<store, disk, ret, history, now, inflight>>

NextList ==
    \/ \E a \in StartArgs : start_order(a[1], a[2])
    \/ \E o \in OrderIds, a \in StatusArgs : admin_update_status(o, a[1], a[2])
    \/ ListOrders

SpecList == Init /\ [][NextList]_vars

(***************************************************************************)
(* compute_totals on its own: any item list, delivery fee and tax rate.    *)
(* Only qty and unit_price of an item are read.                            *)
(***************************************************************************)
TotalsQtys == {1, 2}
TotalsPrices == {1, 3, 150}
TotalsFees == {0, 200}
TotalsRates == {[num |-> 0, den |-> 1], [num |-> 1, den |-> 8],
                [num |-> 1, den |-> 2], [num |-> 3, den |-> 4]}
TotalsItem == [qty : TotalsQtys, unit_price : TotalsPrices]
TotalsItemLists == UNION {[1 .. n -> TotalsItem] : n \in 0 .. MaxLen}

InitTotals ==
    /\ customers = <<>>
    /\ orders = <<>>
    /\ order_items = <<>>
    /\ order_updates = <<>>
    /\ item_seq = 0
    /\ disk = Snapshot(<<>>, <<>>, <<>>, <<>>, 0)
    /\ ret = Result("init", Ok, NoRow)
    /\ removed = {}
    /\ removed_issued = {}
    /\ nchanges = <<>>
    /\ calc \in [items : TotalsItemLists, delivery_fee : TotalsFees,
                 tax_percent : TotalsRates, out : {<<>>}]
    /\ now = 0
    /\ inflight = NoRow

\* One more call on the same inputs; calc.out keeps every result so far.
ComputeTotals ==
    /\ Len(calc.out) < 2
    /\ calc' = [calc EXCEPT !.out = Append(@, compute_totals(calc.items,
                                                            calc.delivery_fee,
                                                            calc.tax_percent))]
    /\ UNCHANGED <<store, disk, ret, history, now, inflight>>

NextTotals == ComputeTotals

SpecTotals == InitTotals /\ [][NextTotals]_vars

(***************************************************************************)
(* Properties.                                                             *)
(***************************************************************************)
Last(seq) == seq[Len(seq)]

ItemIdsOf(items) == {items[i].id : i \in DOMAIN items}

IsValueError(raised) == raised # Ok /\ raised[1] = "ValueError"

RECURSIVE ExactSubtotal(_)
ExactSubtotal(items) ==
    IF items = <<>> THEN 0
    ELSE Head(items).qty * Head(items).unit_price + ExactSubtotal(Tail(items))

\* Each order's status is the status of its newest row in the audit table.
StatusMatchesAudit(ords, updates) ==
    \A o \in DOMAIN ords :
        LET u == UpdatesOf(updates, o)
        IN  u # <<>> /\ ords[o].status = Last(u).status

(* C1: in every reachable state each existing order's current status equals
   the status of its most recent (highest-id) order_updates row.
   Violated: admin_update_status with a message sqlite3 cannot bind runs the
   UPDATE of orders.status and raises on the INSERT of the audit row. *)
C1_StatusIsLastUpdate == StatusMatchesAudit(orders, order_updates)

(* C2: a multi-row write is atomic: when a call fails after its first write,
   neither write is ever persisted, also not by the commit of a later call on
   the shared connection; so the committed orders and audit rows always pair.
   Violated: the UPDATE of a failed set_order_status stays in the open
   transaction and the next commit persists it. *)
C2_CommittedWritesArePaired == StatusMatchesAudit(disk.orders, disk.order_updates)

(* C3: the audit log is append-only: after N successful status changes an
   order has exactly N+1 audit rows, the first being the creation row, and the
   order's status equals the last appended value.
   Violated in its last part, by the failed call of C2. *)
C3_AppendOnlyAudit ==
    \A o \in DOMAIN orders :
        LET u == UpdatesOf(order_updates, o)
        IN  /\ Len(u) = nchanges[o] + 1
            /\ u[1].status = "draft" /\ u[1].message = "Order created"
            /\ orders[o].status = Last(u).status

PlacedRow(updates, o) ==
    [id |-> Len(updates) + 1, order_id |-> o, status |-> "placed",
     message |-> "Order placed"]

(* C4: checkout of an order that does not exist or has zero items raises a
   validation error and leaves the store unchanged: no status change, no
   audit row, nothing committed. *)
C4_CheckoutRejectsEmpty ==
    [][\A o \in OrderIds :
          (ret'.op = "checkout" /\ checkout(o) /\ (o \notin DOMAIN orders \/ ItemsOf(order_items, o) = <<>>))
          => /\ IsValueError(ret'.raised)
             /\ UNCHANGED <<store, disk>>]_vars

C4_Witness ==
    /\ ret = Result("checkout", ValueError("Order has no items"), NoRow)
    /\ \E o \in DOMAIN orders : ItemsOf(order_items, o) = <<>>

(* C5: checkout of an existing order with at least one item returns, sets the
   status to placed, appends exactly one audit row (placed, "Order placed"),
   leaves every item as it was and returns the totals of the order's items
   with delivery fee 0 for pickup and the catalog's fee for delivery. *)
C5_CheckoutPlaces ==
    [][\A o \in OrderIds :
          (ret'.op = "checkout" /\ checkout(o) /\ o \in DOMAIN orders /\ ItemsOf(order_items, o) # <<>>)
          => /\ ret'.raised = Ok
             /\ orders' = [orders EXCEPT ![o].status = "placed"]
             /\ order_updates' = Append(order_updates, PlacedRow(order_updates, o))
             /\ order_items' = order_items
             /\ LET fee == IF orders[o].delivery_type = "pickup"
                           THEN 0 ELSE menu.delivery_fee
                IN  /\ ret'.totals = compute_totals(ItemsOf(order_items, o), fee,
                                                    menu.tax_percent)
                    /\ ret'.totals.subtotal = ExactSubtotal(ItemsOf(order_items, o))
                    /\ ret'.totals.delivery_fee = fee]_vars

C5_Witness ==
    /\ ret.op = "checkout" /\ ret.raised = Ok /\ ret.totals # NoRow
    /\ ret.totals.delivery_fee = menu.delivery_fee
    /\ ret.totals.subtotal > 0
    /\ \E o \in DOMAIN orders :
          orders[o].status = "placed" /\ orders[o].delivery_type = "delivery"

(* C6: checkout is not idempotent: on an order with items that is already
   placed it returns again and appends one more placed audit row. *)
C6_CheckoutTwice ==
    [][\A o \in OrderIds :
          (ret'.op = "checkout" /\ checkout(o) /\ o \in DOMAIN orders /\ ItemsOf(order_items, o) # <<>>
                       /\ orders[o].status = "placed")
          => /\ ret'.raised = Ok
             /\ order_updates' = Append(order_updates, PlacedRow(order_updates, o))]_vars

C6_Witness ==
    /\ ret.op = "checkout" /\ ret.raised = Ok
    /\ \E o \in DOMAIN orders :
          LET u == UpdatesOf(order_updates, o)
          IN  /\ Len(u) >= 3
              /\ u[Len(u)].status = "placed" /\ u[Len(u)].message = "Order placed"
              /\ u[Len(u) - 1].status = "placed"
              /\ u[Len(u) - 1].message = "Order placed"

(* C7: compute_totals returns subtotal = the sum of qty * unit_price over the
   items, tax = the subtotal times the rate rounded to the nearest integer
   (a tie goes to the even one, as Python's round does), the delivery fee it
   was given, and total = subtotal + delivery fee + tax; every call on the
   same inputs returns the same; the store is not touched. *)
C7_Totals ==
    /\ calc # NoRow =>
          \A i \in DOMAIN calc.out :
              LET t == calc.out[i]
                  sub == ExactSubtotal(calc.items)
                  num == sub * calc.tax_percent.num
                  den == calc.tax_percent.den
              IN  /\ t.subtotal = sub
                  /\ 2 * (t.tax * den - num) <= den
                  /\ 2 * (num - t.tax * den) <= den
                  /\ (2 * (num % den) = den => t.tax % 2 = 0)
                  /\ t.delivery_fee = calc.delivery_fee
                  /\ t.total = sub + calc.delivery_fee + t.tax
                  /\ t = calc.out[1]
    /\ calc # NoRow => store = <<<<>>, <<>>, <<>>, <<>>, 0>>

C7_Witness ==
    /\ calc # NoRow
    /\ Len(calc.out) = 2
    /\ Len(calc.items) = 2
    /\ 2 * ((ExactSubtotal(calc.items) * calc.tax_percent.num) % calc.tax_percent.den)
          > calc.tax_percent.den

(* C8: add_pizza with a pizza id that is not in the catalog, or with a size
   other than small, medium, large, raises a validation error and leaves the
   store (the order's items included) unchanged; so does add_extra with an
   extra id that is not in the catalog.  Stated per step: a step either raised
   a validation error and changed nothing, or is no such call. *)
InCatalog(rows, id) ==
    \E i \in DOMAIN rows : rows[i].id = Lower(Strip(id))

C8_UnknownItemRejected ==
    [][\/ IsValueError(ret'.raised) /\ UNCHANGED <<store, disk>>
       \/ /\ ret'.op = "add_pizza" =>
                \A p \in PizzaIds, z \in Sizes :
                    (~InCatalog(menu.pizzas, p)
                        \/ Lower(Strip(z)) \notin {"small", "medium", "large"})
                    => \A o \in OrderIds, q \in Qtys : ~add_pizza(o, p, z, q)
          /\ ret'.op = "add_extra" =>
                \A e \in ExtraIds :
                    ~InCatalog(menu.extras, e)
                    => \A o \in OrderIds, q \in ExtraQtys : ~add_extra(o, e, q)]_vars

C8_Witness ==
    /\ ret = Result("add_pizza", ValueError("Unknown pizza_id"), NoRow)
    /\ orders # <<>>

(* C9 as stated: once remove_item(id) has been called, no get_order ever
   returns an item with that id.  Violated when the id had not been issued
   yet: a later addition is given that id. *)
C9_RemovedNeverReturned ==
    \A id \in removed : \A o \in DOMAIN orders :
        id \notin ItemIdsOf(get_order(o).items)

(* C9, amended: once remove_item(id) has been called for an id that had
   already been issued to an item, no get_order ever returns an item with that
   id, whatever is added later; and remove_item of an id that no row has
   returns normally and changes no item row. *)
C9_IssuedIdNeverReturned ==
    [][/\ \A id \in removed_issued' : \A o \in DOMAIN orders' :
             id \notin ItemIdsOf(ItemsOf(order_items', o))
       /\ \A i \in ItemIds :
             (ret'.op = "remove_item" /\ remove_item(i)
                 /\ i \notin ItemIdsOf(order_items))
             => ret'.raised = Ok /\ order_items' = order_items]_vars

C9_Witness ==
    /\ ret.op \in {"add_pizza", "add_extra"} /\ ret.raised = Ok
    /\ \E id \in removed_issued : \E i \in DOMAIN order_items :
          order_items[i].id > id

(* C10: add_pizza and add_extra with a catalog id, for an order id that does
   not exist, raise an error and write nothing: no order_items row, no other
   change, nothing committed.  Stated per step: a step either raised and
   changed nothing, or is no add_pizza / add_extra for a missing order. *)
C10_MissingOrderRejected ==
    [][\/ ret'.raised # Ok /\ UNCHANGED <<store, disk>>
       \/ /\ ret'.op = "add_pizza" =>
                \A o \in OrderIds \ DOMAIN orders :
                    \A p \in PizzaIds, z \in Sizes, q \in Qtys :
                        ~add_pizza(o, p, z, q)
          /\ ret'.op = "add_extra" =>
                \A o \in OrderIds \ DOMAIN orders :
                    \A e \in ExtraIds, q \in ExtraQtys : ~add_extra(o, e, q)]_vars

C10_Witness ==
    /\ ret = Result("add_pizza", IntegrityError, NoRow)
    /\ orders # <<>>

(* C11: in every reachable state each order's status is one of draft, placed,
   preparing, baking, out_for_delivery, delivered, ready_for_pickup,
   cancelled, whatever the tools were called with.
   Violated: admin_update_status writes any text it is given. *)
OrderStatuses ==
    {"draft", "placed", "preparing", "baking", "out_for_delivery", "delivered",
     "ready_for_pickup", "cancelled"}

C11_StatusInEnum == \A o \in DOMAIN orders : orders[o].status \in OrderStatuses

(* C12: in every reachable state every stored order item has qty >= 1 and
   unit_price > 0, whatever qty add_pizza or add_extra was called with.
   Violated: qty is stored as given, with no check in the tools, in
   add_order_item or in the schema. *)
C12_PositiveQtyAndPrice ==
    \A i \in DOMAIN order_items :
        order_items[i].qty >= 1 /\ order_items[i].unit_price > 0

(* C13: every item addition, item removal and status change on an order sets
   that order's updated_at to the time of the operation: a step that changes
   an order's items, status or audit rows leaves its updated_at equal to the
   clock.
   Violated: remove_order_item deletes the item row and leaves the orders row
   alone. *)
C13_UpdatedAtBumped ==
    [][\A o \in DOMAIN orders :
          (\/ ItemsOf(order_items', o) # ItemsOf(order_items, o)
           \/ UpdatesOf(order_updates', o) # UpdatesOf(order_updates, o)
           \/ orders'[o].status # orders[o].status)
          => orders'[o].updated_at = now]_vars

(* C14: right after a start_order that returned, the new order has status
   draft, no items and exactly one audit row, with status draft and message
   "Order created"; its id is none of the ids issued before; the order row and
   the audit row are committed together. *)
C14_NewOrderIsDraft ==
    [][(ret'.op = "start_order" /\ ret'.raised = Ok)
       => LET o == Len(orders')
          IN  /\ o \notin DOMAIN orders
              /\ DOMAIN orders' = DOMAIN orders \cup {o}
              /\ orders'[o].id = o
              /\ orders'[o].status = "draft"
              /\ ItemsOf(order_items', o) = <<>>
              /\ UpdatesOf(order_updates', o)
                     = <<[id |-> Len(order_updates'), order_id |-> o,
                          status |-> "draft", message |-> "Order created"]>>
              /\ disk'.orders = orders'
              /\ disk'.order_updates = order_updates']_vars

C14_Witness ==
    /\ ret.op = "start_order" /\ ret.raised = Ok
    /\ Len(orders) = 2
    /\ ItemsOf(order_items, 1) # <<>>

(* C15: start_order with a delivery type that, stripped and lower-cased, is
   neither delivery nor pickup raises a validation error and writes no
   customer, order or audit row; with a valid delivery type it creates a
   customers row exactly when a name that is not blank was given, and links
   the order to it. *)
BlankNames == {None, "", "  "}

C15_StartOrderValidates ==
    [][ret'.op = "start_order" =>
          \A a \in StartArgs :
              start_order(a[1], a[2])
              => IF Lower(Strip(a[1])) \notin {"delivery", "pickup"}
                 THEN IsValueError(ret'.raised) /\ UNCHANGED <<store, disk>>
                 ELSE /\ ret'.raised = Ok
                      /\ Len(orders') = Len(orders) + 1
                      /\ IF a[2] \in BlankNames
                         THEN /\ customers' = customers
                              /\ orders'[Len(orders')].customer_id = 0
                         ELSE /\ Len(customers') = Len(customers) + 1
                              /\ orders'[Len(orders')].customer_id = Len(customers')
                              /\ customers'[Len(customers')].name = Strip(a[2])]_vars

C15_Witness ==
    /\ ret.op = "start_order" /\ ret.raised = Ok
    /\ Len(orders) = 2 /\ Len(customers) = 1
    /\ orders[1].customer_id = 1 /\ orders[2].customer_id = 0

(* C16: an order_items row is never changed between its insertion and its
   removal: in every step, each row that is still there afterwards has the
   item_id, name, size, qty, unit_price and order it had before; and an order
   whose set of item rows is the same after the step gets the same subtotal
   from compute_totals. *)
C16_ItemFieldsImmutable ==
    [][order_items' # order_items =>
          /\ \A i \in DOMAIN order_items : \A j \in DOMAIN order_items' :
                order_items'[j].id = order_items[i].id
                => order_items'[j] = order_items[i]
          /\ \A o \in OrderIds :
                ItemIdsOf(ItemsOf(order_items', o)) = ItemIdsOf(ItemsOf(order_items, o))
                => compute_totals(ItemsOf(order_items', o), 0, menu.tax_percent).subtotal
                      = compute_totals(ItemsOf(order_items, o), 0, menu.tax_percent).subtotal]_vars

C16_Witness ==
    /\ ret.op = "remove_item"
    /\ removed_issued # {}
    /\ \E i \in DOMAIN order_items :
          order_items[i].qty = 2 /\ \E id \in removed_issued : id > order_items[i].id

(* C17: in every reachable state every order_items row and every
   order_updates row references an existing order, and every order's
   customer_id is NULL or the id of an existing customer; in the connection's
   view and in what is committed; calls with order ids that do not exist
   included. *)
Referenced(db) ==
    /\ \A i \in DOMAIN db.order_items :
          db.order_items[i].order_id \in DOMAIN db.orders
    /\ \A i \in DOMAIN db.order_updates :
          db.order_updates[i].order_id \in DOMAIN db.orders
    /\ \A o \in DOMAIN db.orders :
          db.orders[o].customer_id = 0
             \/ db.orders[o].customer_id \in DOMAIN db.customers

C17_ReferentialIntegrity ==
    /\ Referenced(Snapshot(customers, orders, order_items, order_updates, item_seq))
    /\ Referenced(disk)

C17_Witness ==
    /\ ret = Result("admin_update_status", IntegrityError, NoRow)
    /\ order_items # <<>>
    /\ customers # <<>>

(* C18: list_orders(limit) returns orders in strictly descending id order and
   never more than limit of them, for every integer limit and every store
   content.
   (An empty result is taken to be within any limit.)
   Violated: a negative limit is passed to LIMIT as it is, and SQLite then
   returns every order. *)
C18_ListDescendingBounded ==
    calc # NoRow =>
        /\ \A i \in 1 .. Len(calc.out) - 1 : calc.out[i].id > calc.out[i + 1].id
        /\ calc.out # <<>> => Len(calc.out) <= calc.limit

(* C19: with several callers interleaving on one order, a checkout that
   places the order writes the status while the order has at least one item:
   no other caller's remove_item comes between the emptiness check and the
   status write.
   Violated: the check (get_order) and the write (set_order_status) are
   separate statements with no transaction or lock around them. *)
C19_PlacedHasItems ==
    [][(ret'.op = "checkout" /\ ret'.raised = Ok /\ nchanges' # nchanges)
       => \A o \in DOMAIN orders :
              nchanges'[o] # nchanges[o] => ItemsOf(order_items', o) # <<>>]_vars

(* C20: add_pizza, add_extra and remove_item change no order's status and no
   order_updates row, and at most the one item row they target; every other
   item row of every order stays as it was.  Required of the rows the
   connection reads and of the committed rows.
   Violated in the committed rows: the commit that ends add_order_item and
   remove_order_item also commits a status UPDATE that a failed
   set_order_status left in the open transaction. *)
RowsOf(items) == {items[i] : i \in DOMAIN items}

FrameHolds(before, after) ==
    /\ \A o \in DOMAIN before.orders :
          after.orders[o].status = before.orders[o].status
    /\ after.order_updates = before.order_updates
    /\ Cardinality((RowsOf(before.order_items) \ RowsOf(after.order_items))
                      \cup (RowsOf(after.order_items) \ RowsOf(before.order_items))) <= 1

C20_ItemToolsFrame ==
    [][ret'.op \in {"add_pizza", "add_extra", "remove_item"}
       => /\ FrameHolds(Snapshot(customers, orders, order_items, order_updates, item_seq),
                        Snapshot(customers', orders', order_items', order_updates', item_seq'))
          /\ FrameHolds(disk, disk')]_vars

(* C21: item additions and removals are accepted whatever the order's status:
   on an order that is placed, delivered or cancelled, add_pizza and add_extra
   with a catalog item return normally and append an item row to the order,
   and remove_item returns normally and deletes the row; the status stays as
   it was, so the order's items are no longer the ones its checkout totals
   were computed from. *)
LateStatuses == {"placed", "delivered", "cancelled"}

C21_ItemsChangeAfterCheckout ==
    [][\A o \in DOMAIN orders :
          orders[o].status \in LateStatuses =>
             /\ (ret'.op = "add_pizza" /\ add_pizza(o, " MARGHERITA ", " Medium ", 2))
                => /\ ret'.raised = Ok
                   /\ ItemsOf(order_items', o)
                         = Append(ItemsOf(order_items, o), Last(order_items'))
                   /\ Last(order_items').item_id = "margherita"
                   /\ orders'[o].status = orders[o].status
             /\ (ret'.op = "add_extra" /\ add_extra(o, "garlic_bread", 0))
                => /\ ret'.raised = Ok
                   /\ ItemsOf(order_items', o)
                         = Append(ItemsOf(order_items, o), Last(order_items'))
                   /\ Last(order_items').item_id = "garlic_bread"
                   /\ orders'[o].status = orders[o].status
             /\ ret'.op = "remove_item" =>
                   \A i \in ItemIdsOf(ItemsOf(order_items, o)) \cap ItemIds :
                       remove_item(i)
                       => /\ ret'.raised = Ok
                          /\ i \notin ItemIdsOf(ItemsOf(order_items', o))
                          /\ orders'[o].status = orders[o].status]_vars

\* A delivered order that went through checkout and has lost its only item.
C21_Witness ==
    /\ ret.op = "remove_item" /\ ret.raised = Ok
    /\ \E o \in DOMAIN orders :
          /\ orders[o].status = "delivered"
          /\ nchanges[o] = 2
          /\ ItemsOf(order_items, o) = <<>>

====
